---- MODULE Spec2Model ----
(***************************************************************************)
(* Identifier and address derivation of the sdk package                    *)
(* (namespace_model.go, account_model.go), and the base-URL failover of    *)
(* the REST client (Config, Client.DoNewRequest).                          *)
(*                                                                         *)
(* Representation.  A Go string is the sequence of its bytes (ASCII        *)
(* codes), a []byte is a sequence of numbers 0..255.  A uint64 is the      *)
(* tuple of its four 16-bit limbs, most significant first, so that         *)
(* <<32768,0,0,0>> is 1 << 63; all arithmetic stays inside 16 bits.        *)
(* A call's result is a record [val, err]: val is <<>> for a nil pointer    *)
(* and <<v>> otherwise, err = "none" is Go's nil error, err = "panic" is a *)
(* run-time panic of the call.                                             *)
(***************************************************************************)
EXTENDS Integers, Sequences, FiniteSets, TLC

\* op, arg, ret: the last call, its input and its result.
\* addr, origin: the Address the caller holds and the constructor it came from.
\* config: the client's Config: BaseURLs, the parsed URLs in the order given,
\* and UsedBaseUrl, a pointer to one of them, held as its position in
\* BaseURLs (0 while no Config has been constructed).
VARIABLES op, arg, ret, addr, origin, config

vars == <<op, arg, ret, addr, origin, config>>

\* ------------------------------------------------------------ bounds
\* Names handed to GenerateNamespacePath have up to MaxParts segments.
MaxParts == 4
\* Public keys handed to NewAddressFromPublicKey: NumKeys distinct keys.
NumKeys == 2
\* The low limb of the sampled 64-bit values ranges over 0..MaxLow.
MaxLow == 1
\* The alias kind of a DTO ranges over 0..MaxAliasType.
MaxAliasType == 3
\* A Config is built from up to MaxUrls base URLs.
MaxUrls == 3

\* ------------------------------------------------------------ values
NoError == "none"
Panic == "panic"
ErrWrongBitNamespaceId == "ErrWrongBitNamespaceId"
ErrWrongBitMosaicId == "ErrWrongBitMosaicId"
ErrInvalidNamespaceName == "ErrInvalidNamespaceName"
ErrNamespaceTooManyPart == "ErrNamespaceTooManyPart"
ErrInvalidAddress == "ErrInvalidAddress"
CorruptInputError == "base32.CorruptInputError"
HexDecodeError == "hex.InvalidByteError"

\* A returned pointer is <<>> (nil) or <<v>>.
Nil == <<>>
Ok(v) == [val |-> <<v>>, err |-> NoError]
Fail(e) == [val |-> Nil, err |-> e]

\* ------------------------------------------------------------ strings
\* strings.Replace(s, "-", "", -1)
StripDashes(s) == SelectSeq(s, LAMBDA c : c # 45)

\* strings.ToUpper on ASCII text
UpperChar(c) == IF c >= 97 /\ c <= 122 THEN c - 32 ELSE c
ToUpper(s) == [i \in 1..Len(s) |-> UpperChar(s[i])]

LowerChar(c) == IF c >= 65 /\ c <= 90 THEN c + 32 ELSE c
ToLower(s) == [i \in 1..Len(s) |-> LowerChar(s[i])]

\* strings.Repeat(s, n)
RECURSIVE Repeat(_, _)
Repeat(s, n) == IF n = 0 THEN <<>> ELSE s \o Repeat(s, n - 1)

\* Index of the first "." of s, 0 when there is none.
RECURSIVE IndexDot(_, _)
IndexDot(s, i) ==
    IF i > Len(s) THEN 0
    ELSE IF s[i] = 46 THEN i
    ELSE IndexDot(s, i + 1)

\* strings.Split(s, "."): always at least one part; "" gives <<"">>.
RECURSIVE Split(_)
Split(s) ==
    LET k == IndexDot(s, 1)
    IN  IF k = 0 THEN <<s>>
        ELSE <<SubSeq(s, 1, k - 1)>> \o Split(SubSeq(s, k + 1, Len(s)))

\* ------------------------------------------------------------ hex
HexDigitLower(n) == IF n < 10 THEN 48 + n ELSE 87 + n
HexDigitUpper(n) == IF n < 10 THEN 48 + n ELSE 55 + n

\* hex.EncodeToString: two lowercase digits per byte.
HexEncodeToString(b) ==
    [i \in 1..(2 * Len(b)) |->
        IF i % 2 = 1 THEN HexDigitLower(b[(i + 1) \div 2] \div 16)
        ELSE HexDigitLower(b[i \div 2] % 16)]

\* fmt.Sprintf("%X", n) for n >= 0: uppercase, no leading zeros.
RECURSIVE SprintfX(_)
SprintfX(n) ==
    IF n < 16 THEN <<HexDigitUpper(n)>>
    ELSE SprintfX(n \div 16) \o <<HexDigitUpper(n % 16)>>

IsHexChar(c) ==
    \/ c >= 48 /\ c <= 57
    \/ c >= 65 /\ c <= 70
    \/ c >= 97 /\ c <= 102

HexVal(c) ==
    IF c <= 57 THEN c - 48
    ELSE IF c <= 70 THEN c - 55
    ELSE c - 87

\* hex.DecodeString: both cases accepted; odd length or a foreign character
\* is an error.
HexDecodeString(s) ==
    IF Len(s) % 2 # 0 \/ \E i \in 1..Len(s) : ~IsHexChar(s[i])
    THEN Fail(HexDecodeError)
    ELSE Ok([i \in 1..(Len(s) \div 2) |->
                16 * HexVal(s[2 * i - 1]) + HexVal(s[2 * i])])

\* ------------------------------------------------------------ base32
\* base32.StdEncoding: alphabet A-Z 2-7, padding "=".
B32Char(v) == IF v < 26 THEN 65 + v ELSE 24 + v
IsB32Char(c) == (c >= 65 /\ c <= 90) \/ (c >= 50 /\ c <= 55)
B32Val(c) == IF c >= 65 THEN c - 65 ELSE c - 24

\* The eight 5-bit groups of a 5-byte quantum.
B32Groups(q) ==
    << q[1] \div 8,
       (q[1] % 8) * 4 + q[2] \div 64,
       (q[2] \div 2) % 32,
       (q[2] % 2) * 16 + q[3] \div 16,
       (q[3] % 16) * 2 + q[4] \div 128,
       (q[4] \div 4) % 32,
       (q[4] % 4) * 8 + q[5] \div 32,
       q[5] % 32 >>

\* Characters that carry data in a quantum of n bytes (n in 1..5).
B32DataChars(n) == CASE n = 1 -> 2 [] n = 2 -> 4 [] n = 3 -> 5 [] n = 4 -> 7 [] OTHER -> 8

\* One quantum of n <= 5 bytes: the missing bytes count as 0, the unused
\* positions are padded with "=".
B32EncodeQuantum(q) ==
    LET n == Len(q)
        full == [i \in 1..5 |-> IF i <= n THEN q[i] ELSE 0]
        g == B32Groups(full)
    IN  [i \in 1..8 |-> IF i <= B32DataChars(n) THEN B32Char(g[i]) ELSE 61]

RECURSIVE B32EncodeToString(_)
B32EncodeToString(b) ==
    IF Len(b) = 0 THEN <<>>
    ELSE IF Len(b) <= 5 THEN B32EncodeQuantum(b)
    ELSE B32EncodeQuantum(SubSeq(b, 1, 5)) \o B32EncodeToString(SubSeq(b, 6, Len(b)))

\* Bytes a quantum of d data characters decodes to.
B32DataBytes(d) == CASE d = 2 -> 1 [] d = 4 -> 2 [] d = 5 -> 3 [] d = 7 -> 4 [] OTHER -> 5

\* The five bytes of eight 5-bit groups.
B32Bytes(g) ==
    << g[1] * 8 + g[2] \div 4,
       (g[2] % 4) * 64 + g[3] * 2 + g[4] \div 16,
       (g[4] % 16) * 16 + g[5] \div 2,
       (g[5] % 2) * 128 + g[6] * 4 + g[7] \div 8,
       (g[7] % 8) * 32 + g[8] >>

\* Number of leading alphabet characters of an 8-character quantum.
RECURSIVE B32Lead(_, _)
B32Lead(q, i) ==
    IF i > 8 THEN 8
    ELSE IF IsB32Char(q[i]) THEN B32Lead(q, i + 1)
    ELSE i - 1

\* A quantum is well formed when it is all data, or (the last quantum only)
\* 2, 4, 5 or 7 data characters followed by "=" up to 8.
B32QuantumOk(q, last) ==
    LET d == B32Lead(q, 1)
    IN  \/ d = 8
        \/ /\ last
           /\ d \in {2, 4, 5, 7}
           /\ \A i \in (d + 1)..8 : q[i] = 61

B32DecodeQuantum(q) ==
    LET d == B32Lead(q, 1)
        g == [i \in 1..8 |-> IF i <= d THEN B32Val(q[i]) ELSE 0]
    IN  SubSeq(B32Bytes(g), 1, B32DataBytes(d))

\* base32.StdEncoding.DecodeString: "\r" and "\n" are dropped first; the rest
\* must be whole 8-character quanta.
B32DecodeString(s) ==
    LET t == SelectSeq(s, LAMBDA c : c # 10 /\ c # 13)
        n == Len(t) \div 8
        Q(i) == SubSeq(t, 8 * i - 7, 8 * i)
        RECURSIVE Cat(_)
        Cat(i) == IF i > n THEN <<>> ELSE B32DecodeQuantum(Q(i)) \o Cat(i + 1)
    IN  IF Len(t) % 8 # 0 \/ \E i \in 1..n : ~B32QuantumOk(Q(i), i = n)
        THEN Fail(CorruptInputError)
        ELSE Ok(Cat(1))

\* ------------------------------------------------------------ uint64
\* a & b and a | b on 16-bit limbs
RECURSIVE And16(_, _)
And16(a, b) ==
    IF a = 0 \/ b = 0 THEN 0
    ELSE (a % 2) * (b % 2) + 2 * And16(a \div 2, b \div 2)

RECURSIVE Or16(_, _)
Or16(a, b) ==
    IF a = 0 THEN b
    ELSE IF b = 0 THEN a
    ELSE (IF a % 2 = 1 \/ b % 2 = 1 THEN 1 ELSE 0) + 2 * Or16(a \div 2, b \div 2)

And64(a, b) == [i \in 1..4 |-> And16(a[i], b[i])]
Or64(a, b) == [i \in 1..4 |-> Or16(a[i], b[i])]

Zero64 == <<0, 0, 0, 0>>

\* const NamespaceBit uint64 = 1 << 63
NamespaceBit == <<32768, 0, 0, 0>>

\* hasBits(number, bits): number & bits == bits
hasBits(number, bits) == And64(number, bits) = bits

\* binary.LittleEndian.PutUint64
PutUint64(id) ==
    << id[4] % 256, id[4] \div 256, id[3] % 256, id[3] \div 256,
       id[2] % 256, id[2] \div 256, id[1] % 256, id[1] \div 256 >>

\* binary.LittleEndian.Uint64 of the first 8 bytes of b
Uint64(b) ==
    << b[7] + 256 * b[8], b[5] + 256 * b[6], b[3] + 256 * b[4], b[1] + 256 * b[2] >>

\* ------------------------------------------------------------ hashes
\* The digests come from an external provider; they are modelled as fixed
\* deterministic functions of the whole input with the provider's output
\* lengths (32 and 20 bytes).
RECURSIVE Absorb(_, _, _)
Absorb(b, i, h) ==
    IF i > Len(b) THEN h
    ELSE Absorb(b, i + 1, (h * 131 + b[i] + 1) % 65521)

\* crypto.HashesSha3_256
HashesSha3_256(b) ==
    LET h == Absorb(b, 1, Len(b) + 17)
    IN  [i \in 1..32 |-> (h \div 7 + h * i + i * i) % 256]

\* crypto.HashesRipemd160
HashesRipemd160(b) ==
    LET h == Absorb(b, 1, Len(b) + 4099)
    IN  [i \in 1..20 |-> (h \div 3 + h * (i + 2) + 5 * i) % 256]

\* ------------------------------------------------------------ NamespaceId
\* NewNamespaceIdNoCheck: the value is taken as it is.
NewNamespaceIdNoCheck(id) == id

\* NamespaceId.Id()
Id(namespaceId) == namespaceId

\* NewNamespaceId
NewNamespaceId_NoZero(id) ==
    IF ~hasBits(id, NamespaceBit)
    THEN Fail(ErrWrongBitNamespaceId)
    ELSE Ok(NewNamespaceIdNoCheck(id))

NewNamespaceId(id) ==
    IF id # Zero64 /\ ~hasBits(id, NamespaceBit)
    THEN Fail(ErrWrongBitNamespaceId)
    ELSE Ok(NewNamespaceIdNoCheck(id))

\* generateNamespaceId(name, parentId): SHA3-256 over the parent's 8
\* little-endian bytes followed by the name; the first 8 digest bytes read
\* little-endian, with bit 63 forced to 1.
generateNamespaceId(name, parentId) ==
    LET t == HashesSha3_256(PutUint64(Id(parentId)) \o name)
    IN  NewNamespaceId(Or64(Uint64(t), NamespaceBit))

\* regValidNamespace.MatchString: non-empty, letters, digits, "_" and "-"
\* only, and the first character a letter or a digit.
IsAlnum(c) ==
    \/ c >= 48 /\ c <= 57
    \/ c >= 65 /\ c <= 90
    \/ c >= 97 /\ c <= 122

regValidNamespace(part) ==
    /\ Len(part) > 0
    /\ IsAlnum(part[1])
    /\ \A i \in 1..Len(part) : IsAlnum(part[i]) \/ part[i] = 95 \/ part[i] = 45

\* The loop of GenerateNamespacePath from part i on; namespaceId is the
\* identifier made for part i - 1 (the sentinel 0 before the first part).
RECURSIVE PathLoop(_, _, _, _)
PathLoop(parts, i, namespaceId, path) ==
    IF i > Len(parts) THEN Ok(path)
    ELSE IF ~regValidNamespace(parts[i]) THEN Fail(ErrInvalidNamespaceName)
    ELSE LET r == generateNamespaceId(parts[i], namespaceId)
         IN  IF r.err # NoError THEN Fail(r.err)
             ELSE PathLoop(parts, i + 1, r.val[1], Append(path, r.val[1]))

\* The loop with the sentinel handed to every derivation.
RECURSIVE PathLoopRootParent(_, _, _)
PathLoopRootParent(parts, i, path) ==
    IF i > Len(parts) THEN Ok(path)
    ELSE IF ~regValidNamespace(parts[i]) THEN Fail(ErrInvalidNamespaceName)
    ELSE LET r == generateNamespaceId(parts[i], NewNamespaceIdNoCheck(Zero64))
         IN  IF r.err # NoError THEN Fail(r.err)
             ELSE PathLoopRootParent(parts, i + 1, Append(path, r.val[1]))

GenerateNamespacePath_RootParent(name) ==
    LET parts == Split(name)
    IN  IF Len(parts) = 0 THEN Fail(ErrInvalidNamespaceName)
        ELSE IF Len(parts) > 3 THEN Fail(ErrNamespaceTooManyPart)
        ELSE PathLoopRootParent(parts, 1, <<>>)

\* The part count checked after the parts.
GenerateNamespacePath_LateCount(name) ==
    LET parts == Split(name)
        r == PathLoop(parts, 1, NewNamespaceIdNoCheck(Zero64), <<>>)
    IN  IF r.err # NoError THEN r
        ELSE IF Len(parts) > 3 THEN Fail(ErrNamespaceTooManyPart)
        ELSE r

\* The loop with the parent appended in place of the identifier just made.
RECURSIVE PathLoopAppendParent(_, _, _, _)
PathLoopAppendParent(parts, i, namespaceId, path) ==
    IF i > Len(parts) THEN Ok(path)
    ELSE IF ~regValidNamespace(parts[i]) THEN Fail(ErrInvalidNamespaceName)
    ELSE LET r == generateNamespaceId(parts[i], namespaceId)
         IN  IF r.err # NoError THEN Fail(r.err)
             ELSE PathLoopAppendParent(parts, i + 1, r.val[1],
                                       Append(path, namespaceId))

GenerateNamespacePath_AppendParent(name) ==
    LET parts == Split(name)
    IN  IF Len(parts) = 0 THEN Fail(ErrInvalidNamespaceName)
        ELSE IF Len(parts) > 3 THEN Fail(ErrNamespaceTooManyPart)
        ELSE PathLoopAppendParent(parts, 1, NewNamespaceIdNoCheck(Zero64), <<>>)

\* GenerateNamespacePath
GenerateNamespacePath(name) ==
    LET parts == Split(name)
    IN  IF Len(parts) = 0 THEN Fail(ErrInvalidNamespaceName)
        ELSE IF Len(parts) > 3 THEN Fail(ErrNamespaceTooManyPart)
        ELSE PathLoop(parts, 1, NewNamespaceIdNoCheck(Zero64), <<>>)

\* NewNamespaceIdFromName
NewNamespaceIdFromName(namespaceName) ==
    LET r == GenerateNamespacePath(namespaceName)
    IN  IF r.err # NoError THEN Fail(r.err)
        ELSE LET list == r.val[1]
                 l == Len(list)
             IN  IF l = 0 THEN Fail(ErrInvalidNamespaceName)
                 ELSE Ok(list[l])

\* ------------------------------------------------------------ network types
\* NetworkType values and uint8(networkType), the address version byte.
AliasAddress == "AliasAddress"
NetworkTypes == {"Mijin", "MijinTest", "Public", "PublicTest", "Private", "PrivateTest"}

VersionByte ==
    [t \in NetworkTypes \cup {AliasAddress} |->
        CASE t = "Mijin" -> 96
          [] t = "MijinTest" -> 144
          [] t = "Public" -> 184
          [] t = "PublicTest" -> 168
          [] t = "Private" -> 200
          [] t = "PrivateTest" -> 176
          [] OTHER -> 145]

\* addressNet: version byte -> network type
addressNet ==
    (96 :> "Mijin") @@ (144 :> "MijinTest") @@ (184 :> "Public") @@
    (168 :> "PublicTest") @@ (200 :> "Private") @@ (176 :> "PrivateTest") @@
    (145 :> AliasAddress)

\* ------------------------------------------------------------ Address
NUM_CHECKSUM_BYTES == 4

\* GenerateChecksum: the first NUM_CHECKSUM_BYTES bytes of the SHA3-256 digest
GenerateChecksum(b) == SubSeq(HashesSha3_256(b), 1, NUM_CHECKSUM_BYTES)

\* NewAddress: dashes stripped, uppercased, no check of any kind
NewAddress(address, networkType) ==
    [Type |-> networkType, Address |-> ToUpper(StripDashes(address))]

\* The version looked up under the first character of the text.
NewAddressFromRaw_TextKey(address) ==
    LET d == B32DecodeString(address)
    IN  IF d.err # NoError THEN Fail(d.err)
        ELSE IF Len(address) = 0 THEN Fail(Panic)
        ELSE IF address[1] \in DOMAIN addressNet
             THEN Ok(NewAddress(address, addressNet[address[1]]))
        ELSE Fail(ErrInvalidAddress)

\* The parse with the checksum of the decoded bytes verified as well.
NewAddressFromRaw_Checksum(address) ==
    LET d == B32DecodeString(address)
        pH == d.val[1]
    IN  IF d.err # NoError THEN Fail(d.err)
        ELSE IF Len(pH) = 0 THEN Fail(Panic)
        ELSE IF pH[1] \notin DOMAIN addressNet THEN Fail(ErrInvalidAddress)
        ELSE IF Len(pH) > NUM_CHECKSUM_BYTES
                /\ GenerateChecksum(SubSeq(pH, 1, Len(pH) - NUM_CHECKSUM_BYTES))
                     # SubSeq(pH, Len(pH) - NUM_CHECKSUM_BYTES + 1, Len(pH))
             THEN Fail(ErrInvalidAddress)
        ELSE Ok(NewAddress(address, addressNet[pH[1]]))

\* NewAddressFromRaw: decode, then pH[0] looked up; pH[0] of an empty slice
\* panics (index out of range).  The text is normalised by NewAddress only,
\* after the decode.
NewAddressFromRaw(address) ==
    LET d == B32DecodeString(address)
        pH == d.val[1]
    IN  IF d.err # NoError THEN Fail(d.err)
        ELSE IF Len(pH) = 0 THEN Fail(Panic)
        ELSE IF pH[1] \in DOMAIN addressNet
             THEN Ok(NewAddress(address, addressNet[pH[1]]))
        ELSE Fail(ErrInvalidAddress)

\* generateEncodedAddress(pKey, version): SHA3-256 of the key bytes, RIPEMD-160
\* of that, the version byte in front, the checksum behind, base32.
generateEncodedAddress(pKey, version) ==
    LET k == HexDecodeString(pKey)
    IN  IF k.err # NoError THEN Fail(k.err)
        ELSE LET ripemd160StepOneHash == HashesRipemd160(HashesSha3_256(k.val[1]))
                 versionPrefixed == <<VersionByte[version]>> \o ripemd160StepOneHash
                 checksum == GenerateChecksum(versionPrefixed)
             IN  Ok(B32EncodeToString(versionPrefixed \o checksum))

\* NewAddressFromPublicKey
NewAddressFromPublicKey(pKey, networkType) ==
    LET ad == generateEncodedAddress(pKey, networkType)
    IN  IF ad.err # NoError THEN Fail(ad.err)
        ELSE Ok(NewAddress(ad.val[1], networkType))

\* NewAddressFromEncoded: hex to bytes, bytes to base32 text, text parsed
NewAddressFromEncoded(encoded) ==
    LET pH == HexDecodeString(encoded)
    IN  IF pH.err # NoError THEN Fail(pH.err)
        ELSE NewAddressFromRaw(B32EncodeToString(pH.val[1]))

\* NewAddressFromBase32: takes the hex text of the payload, as
\* NewAddressFromEncoded does.
NewAddressFromBase32(encoded) == NewAddressFromEncoded(encoded)

\* The identifier written on 4 bytes only.
NewAddressFromNamespace_PutUint32(namespaceId) ==
    LET a == SprintfX(VersionByte[AliasAddress])
        namespaceB == SubSeq(PutUint64(Id(namespaceId)), 1, 4) \o <<0, 0, 0, 0>>
    IN  NewAddressFromBase32(
            a \o HexEncodeToString(namespaceB) \o Repeat(<<48, 48>>, 16))

\* NewAddressFromNamespace: "91", the id on 8 little-endian bytes, 16 zero bytes
NewAddressFromNamespace(namespaceId) ==
    LET a == SprintfX(VersionByte[AliasAddress])
        namespaceB == PutUint64(Id(namespaceId))
    IN  NewAddressFromBase32(
            a \o HexEncodeToString(namespaceB) \o Repeat(<<48, 48>>, 16))

\* ad.Address[lo:hi] of the Go source (0-based, hi excluded)
Slice(s, lo, hi) == SubSeq(s, lo + 1, hi)

RECURSIVE PrettyBlocks(_, _)
PrettyBlocks(a, i) ==
    IF i >= 6 THEN <<>>
    ELSE Slice(a, i * 6, i * 6 + 6) \o <<45>> \o PrettyBlocks(a, i + 1)

\* The tail one character short.
Pretty_ShortTail(ad) ==
    LET a == ad.Address
    IN  IF \E i \in 0..5 : i * 6 + 6 > Len(a) THEN Fail(Panic)
        ELSE Ok(PrettyBlocks(a, 0) \o Slice(a, Len(a) - 3, Len(a)))

\* Address.Pretty: six slices of 6, each followed by "-", then the last 4
\* characters; a slice beyond the end of the text panics.
Pretty(ad) ==
    LET a == ad.Address
    IN  IF \E i \in 0..5 : i * 6 + 6 > Len(a) THEN Fail(Panic)
        ELSE IF Len(a) - 4 < 0 THEN Fail(Panic)
        ELSE Ok(PrettyBlocks(a, 0) \o Slice(a, Len(a) - 4, Len(a)))

\* ------------------------------------------------------------ alias
NoneAliasType == 0
MosaicAliasType == 1
AddressAliasType == 2

\* mosaicIdDTO.toStruct: a mosaic id has bit 63 clear
toStruct(id) ==
    IF hasBits(id, NamespaceBit) THEN Fail(ErrWrongBitMosaicId) ELSE Ok(id)

NamespaceAlias(mosaicId, address, Type) ==
    [mosaicId |-> mosaicId, address |-> address, Type |-> Type]

\* The address decoded whatever the alias kind is.
NewNamespaceAlias_AlwaysAddress(dto) ==
    LET a == NewAddressFromBase32(dto.Address)
        m == toStruct(dto.MosaicId)
    IN  IF dto.Type = MosaicAliasType /\ m.err # NoError THEN Fail(m.err)
        ELSE Ok(NamespaceAlias(
                IF dto.Type = MosaicAliasType THEN m.val ELSE Nil,
                a.val, dto.Type))

\* NewNamespaceAlias: the switch has no default; any other Type leaves both
\* payloads nil and returns the alias without error.
NewNamespaceAlias(dto) ==
    IF dto.Type = AddressAliasType
    THEN LET a == NewAddressFromBase32(dto.Address)
         IN  IF a.err # NoError THEN Fail(a.err)
             ELSE Ok(NamespaceAlias(Nil, a.val, dto.Type))
    ELSE IF dto.Type = MosaicAliasType
    THEN LET mosaicId == toStruct(dto.MosaicId)
         IN  IF mosaicId.err # NoError THEN Fail(mosaicId.err)
             ELSE Ok(NamespaceAlias(mosaicId.val, Nil, dto.Type))
    ELSE Ok(NamespaceAlias(Nil, Nil, dto.Type))

\* ------------------------------------------------------------ inputs
\* Segments "", "a", "b_2", "-x"; the second and third match the grammar.
Segments == {<<>>, <<97>>, <<98, 95, 50>>, <<45, 120>>}
GoodSegments == {<<97>>, <<98, 95, 50>>}

SegLists == UNION {[1..n -> Segments] : n \in 1..MaxParts}

\* The segments joined by "."
RECURSIVE Join(_)
Join(segs) ==
    IF Len(segs) = 1 THEN segs[1]
    ELSE segs[1] \o <<46>> \o Join(Tail(segs))

IdSamples ==
    {<<h, 0, m, l>> : h \in {0, 1, 16384, 32767, 32768, 65535},
                      m \in {0, 65535}, l \in 0..MaxLow}

\* Public keys as 64 hex digits, and the malformed key "zz".
PubKey(k) == HexEncodeToString([i \in 1..32 |-> (37 * k + i) % 256])
PubKeys == {PubKey(k) : k \in 1..NumKeys} \cup {<<122, 122>>}

\* t with "-" after each of its first six blocks of 6 characters
Dashed(t) ==
    LET RECURSIVE Blocks(_)
        Blocks(i) ==
            IF i > 6 THEN <<>>
            ELSE SubSeq(t, 6 * i - 5, 6 * i) \o <<45>> \o Blocks(i + 1)
    IN  Blocks(1) \o SubSeq(t, 37, Len(t))

\* Texts handed to NewAddress: a 40-character address text and texts of
\* other lengths cut from it or added to it.
BaseText == generateEncodedAddress(PubKey(1), "Public").val[1]
TextSamples ==
    { BaseText, ToLower(Dashed(BaseText)), <<>>, SubSeq(BaseText, 1, 3),
      SubSeq(BaseText, 1, 35), SubSeq(BaseText, 1, 36), SubSeq(BaseText, 1, 38),
      BaseText \o SubSeq(BaseText, 1, 5) }

\* The forms in which a held address text is handed to the parser.
PlainForms ==
    {[kind |-> k, pos |-> 0, delta |-> 0] :
        k \in {"canonical", "pretty", "lower", "empty", "odd", "short", "long",
               "padded", "version"}}
ChecksumForms ==
    {[kind |-> "checksum", pos |-> p, delta |-> d] :
        p \in 1..NUM_CHECKSUM_BYTES, d \in {1, 128, 255}}
Forms == PlainForms \cup ChecksumForms

\* The 25 bytes behind a 40-character text
BytesOf(t) == B32DecodeString(t).val[1]

HasPayload(t) ==
    /\ Len(t) = 40
    /\ B32DecodeString(t).err = NoError

FormFits(t, f) ==
    CASE f.kind \in {"canonical", "lower", "empty"} -> TRUE
      [] f.kind = "pretty" -> Len(t) >= 36
      [] f.kind \in {"odd", "short", "long", "padded"} -> Len(t) >= 8
      [] OTHER -> HasPayload(t)

Variant(t, f) ==
    CASE f.kind = "canonical" -> t
      [] f.kind = "pretty" -> Dashed(t)
      [] f.kind = "lower" -> ToLower(t)
      [] f.kind = "empty" -> <<>>
      [] f.kind = "odd" -> SubSeq(t, 1, 7)
      [] f.kind = "short" -> SubSeq(t, 1, 8)
      [] f.kind = "long" -> t \o SubSeq(t, 1, 8)
      [] f.kind = "padded" -> SubSeq(t, 1, 2) \o <<61, 61, 61, 61, 61, 61>>
      [] f.kind = "version" ->
            B32EncodeToString([BytesOf(t) EXCEPT ![1] = 255])
      [] OTHER ->
            B32EncodeToString(
                [BytesOf(t) EXCEPT ![21 + f.pos] = (@ + f.delta) % 256])

\* The forms in which the payload of a held address is handed over as hex.
HexForms == {"canonical", "upper", "odd", "empty"}

HexVariant(t, k) ==
    LET h == HexEncodeToString(BytesOf(t))
    IN  CASE k = "canonical" -> h
          [] k = "upper" -> ToUpper(h)
          [] k = "odd" -> SubSeq(h, 1, Len(h) - 1)
          [] OTHER -> <<>>

\* namespaceAliasDTO values
DtoAddresses ==
    { HexEncodeToString(BytesOf(BaseText)),
      HexEncodeToString(<<145, 1, 0, 0, 0, 0, 0, 0, 128>> \o [i \in 1..16 |-> 0]),
      <<>>, <<122, 122>> }
DtoMosaicIds == {Zero64, <<0, 0, 0, 1>>, <<32768, 0, 0, 1>>}
Dtos ==
    [Type : 0..MaxAliasType, Address : DtoAddresses, MosaicId : DtoMosaicIds]

\* ------------------------------------------------------------ state machine
Init ==
    /\ op = "none"
    /\ arg = <<>>
    /\ ret = Fail(NoError)
    /\ addr = [Type |-> "none", Address |-> <<>>]
    /\ origin = "none"
    /\ config = [BaseURLs |-> <<>>, UsedBaseUrl |-> 0]

\* The call recorded with its input and its result; the calls of the
\* identifier and address functions leave the client's Config alone.
Returns(name, input, result) ==
    /\ op' = name
    /\ arg' = input
    /\ ret' = result
    /\ UNCHANGED config

\* The caller keeps the Address a constructor returned.
Holds(name, result) ==
    IF result.err = NoError
    THEN addr' = result.val[1] /\ origin' = name
    ELSE UNCHANGED <<addr, origin>>

DoNewNamespaceId ==
    /\ op = "none"
    /\ \E id \in IdSamples :
        Returns("NewNamespaceId", id, NewNamespaceId(id))
    /\ UNCHANGED <<addr, origin>>

DoGenerateNamespacePath ==
    /\ op = "none"
    /\ \E segs \in SegLists :
        Returns("GenerateNamespacePath", [name |-> Join(segs), segs |-> segs],
                GenerateNamespacePath(Join(segs)))
    /\ UNCHANGED <<addr, origin>>

DoNewNamespaceIdFromName ==
    /\ op = "none"
    /\ \E segs \in SegLists :
        Returns("NewNamespaceIdFromName", [name |-> Join(segs), segs |-> segs],
                NewNamespaceIdFromName(Join(segs)))
    /\ UNCHANGED <<addr, origin>>

DoNewNamespaceAlias ==
    /\ op = "none"
    /\ \E dto \in Dtos :
        Returns("NewNamespaceAlias", dto, NewNamespaceAlias(dto))
    /\ UNCHANGED <<addr, origin>>

DoNewAddress ==
    /\ op = "none"
    /\ \E text \in TextSamples, networkType \in NetworkTypes :
        LET result == Ok(NewAddress(text, networkType))
        IN  /\ Returns("NewAddress",
                       [text |-> text, networkType |-> networkType], result)
            /\ Holds("NewAddress", result)

DoNewAddressFromPublicKey ==
    /\ op = "none"
    /\ \E pKey \in PubKeys, networkType \in NetworkTypes :
        LET result == NewAddressFromPublicKey(pKey, networkType)
        IN  /\ Returns("NewAddressFromPublicKey",
                       [pKey |-> pKey, networkType |-> networkType], result)
            /\ Holds("NewAddressFromPublicKey", result)

DoNewAddressFromNamespace ==
    /\ op = "none"
    /\ \E id \in IdSamples :
        LET result == NewAddressFromNamespace(NewNamespaceIdNoCheck(id))
        IN  /\ Returns("NewAddressFromNamespace", id, result)
            /\ Holds("NewAddressFromNamespace", result)

\* The calls below are made on the Address the caller holds, right after the
\* constructor that returned it.
DoNewAddressFromRaw ==
    /\ origin # "none"
    /\ op = origin
    /\ \E f \in Forms :
        /\ FormFits(addr.Address, f)
        /\ Returns("NewAddressFromRaw",
                   [text |-> Variant(addr.Address, f), form |-> f],
                   NewAddressFromRaw(Variant(addr.Address, f)))
    /\ UNCHANGED <<addr, origin>>

DoNewAddressFromEncoded ==
    /\ origin # "none"
    /\ op = origin
    /\ HasPayload(addr.Address)
    /\ \E k \in HexForms :
        Returns("NewAddressFromEncoded",
                [text |-> HexVariant(addr.Address, k), form |-> k],
                NewAddressFromEncoded(HexVariant(addr.Address, k)))
    /\ UNCHANGED <<addr, origin>>

DoPretty ==
    /\ origin # "none"
    /\ op = origin
    /\ Returns("Pretty", addr, Pretty(addr))
    /\ UNCHANGED <<addr, origin>>

Next ==
    \/ DoNewNamespaceId
    \/ DoGenerateNamespacePath
    \/ DoNewNamespaceIdFromName
    \/ DoNewNamespaceAlias
    \/ DoNewAddress
    \/ DoNewAddressFromPublicKey
    \/ DoNewAddressFromNamespace
    \/ DoNewAddressFromRaw
    \/ DoNewAddressFromEncoded
    \/ DoPretty

Spec == Init /\ [][Next]_vars

\* ------------------------------------------------------------ client
UrlParseError == "url.ParseError"
EmptyBaseUrls == "empty base urls"
UrlError == "*url.Error"
HttpError == "*HttpError"
ContextError == "ctx.Err()"

\* url.Parse: the text ":" has no scheme and does not parse; any other text
\* here is a URL with that host.
urlParse(u) == IF u = ":" THEN Fail(UrlParseError) ELSE Ok(u)

\* NewConfigWithReputation: an empty list and an unparsable URL are errors;
\* otherwise BaseURLs holds the parsed URLs in order and UsedBaseUrl is
\* urls[0].
NewConfigWithReputation(baseUrls) ==
    IF Len(baseUrls) = 0 THEN Fail(EmptyBaseUrls)
    ELSE IF \E i \in 1..Len(baseUrls) : urlParse(baseUrls[i]).err # NoError
    THEN Fail(UrlParseError)
    ELSE Ok([BaseURLs |-> [i \in 1..Len(baseUrls) |-> urlParse(baseUrls[i]).val[1]],
             UsedBaseUrl |-> 1])

\* The result of DoNewRequest: what is returned and the Config it leaves.
Outcome(c, result) == [config |-> c, ret |-> result]

\* The loop over c.config.BaseURLs from entry i on; err is the error of the
\* last attempt.  The entry UsedBaseUrl points to is skipped; the first entry
\* whose attempt returns no error becomes UsedBaseUrl.
RECURSIVE RetryLoop(_, _, _, _)
RetryLoop(c, retry, i, err) ==
    IF i > Len(c.BaseURLs) THEN Outcome(c, Fail(err))
    ELSE IF c.UsedBaseUrl = i THEN RetryLoop(c, retry, i + 1, err)
    ELSE IF retry[i] # NoError THEN RetryLoop(c, retry, i + 1, retry[i])
    ELSE Outcome([c EXCEPT !.UsedBaseUrl = i], Ok("resp"))

\* The loop with UsedBaseUrl set before the attempt is made.
RECURSIVE RetryLoopEager(_, _, _, _)
RetryLoopEager(c, retry, i, err) ==
    IF i > Len(c.BaseURLs) THEN Outcome(c, Fail(err))
    ELSE IF c.UsedBaseUrl = i THEN RetryLoopEager(c, retry, i + 1, err)
    ELSE IF retry[i] # NoError
         THEN RetryLoopEager([c EXCEPT !.UsedBaseUrl = i], retry, i + 1, retry[i])
    ELSE Outcome([c EXCEPT !.UsedBaseUrl = i], Ok("resp"))

DoNewRequest_Eager(c, pathOk, first, retry) ==
    IF ~pathOk THEN Outcome(c, Fail(UrlParseError))
    ELSE IF first = NoError THEN Outcome(c, Ok("resp"))
    ELSE IF first = UrlError THEN RetryLoopEager(c, retry, 1, first)
    ELSE Outcome(c, Fail(first))

\* Client.DoNewRequest.  pathOk: NewRequest could build the request; first:
\* the error of the first c.Do; retry[i]: the error of c.Do against
\* BaseURLs[i], should the loop try it.
DoNewRequest(c, pathOk, first, retry) ==
    IF ~pathOk THEN Outcome(c, Fail(UrlParseError))
    ELSE IF first = NoError THEN Outcome(c, Ok("resp"))
    ELSE IF first = UrlError THEN RetryLoop(c, retry, 1, first)
    ELSE Outcome(c, Fail(first))

\* Base URL lists: n distinct hosts, the same host twice, and a list with a
\* URL that does not parse.
UrlLists ==
    {[i \in 1..n |-> CASE i = 1 -> "h1" [] i = 2 -> "h2" [] i = 3 -> "h3"
                       [] OTHER -> "h4"] : n \in 0..MaxUrls}
    \cup {<<"h1", "h1">>, <<"h1", ":">>}

\* Errors c.Do can return: none, the HTTP client's *url.Error, the context's
\* error, an *HttpError for a status outside 200..226.
DoErrors == {NoError, UrlError, ContextError, HttpError}
RetryErrors == {NoError, UrlError, HttpError}

CallNewConfigWithReputation ==
    /\ config.UsedBaseUrl = 0
    /\ \E baseUrls \in UrlLists :
        LET r == NewConfigWithReputation(baseUrls)
        IN  /\ op' = "NewConfigWithReputation"
            /\ arg' = baseUrls
            /\ ret' = [val |-> <<>>, err |-> r.err]
            /\ IF r.err = NoError THEN config' = r.val[1] ELSE UNCHANGED config
    /\ UNCHANGED <<addr, origin>>

CallDoNewRequest ==
    /\ config.UsedBaseUrl # 0
    /\ \E pathOk \in BOOLEAN, first \in DoErrors,
          retry \in [1..Len(config.BaseURLs) -> RetryErrors] :
        LET r == DoNewRequest(config, pathOk, first, retry)
        IN  /\ op' = "DoNewRequest"
            /\ arg' = [config |-> config, pathOk |-> pathOk, first |-> first,
                       retry |-> retry]
            /\ ret' = r.ret
            /\ config' = r.config
    /\ UNCHANGED <<addr, origin>>

NextClient ==
    \/ CallNewConfigWithReputation
    \/ CallDoNewRequest

SpecClient == Init /\ [][NextClient]_vars

\* ------------------------------------------------------------ claims
Made == {"NewAddressFromPublicKey", "NewAddressFromNamespace"}

\* C1: NewNamespaceId(id) returns ErrWrongBitNamespaceId and no NamespaceId
\* exactly when id is nonzero with bit 63 clear; for 0 and for every id with
\* bit 63 set it returns a NamespaceId whose Id() is id, and no error.
C1_NewNamespaceIdTagBit ==
    op = "NewNamespaceId" =>
        IF arg # <<0, 0, 0, 0>> /\ arg[1] < 32768
        THEN ret.err = ErrWrongBitNamespaceId /\ ret.val = <<>>
        ELSE ret.err = NoError /\ Len(ret.val) = 1 /\ Id(ret.val[1]) = arg

C1_Witness ==
    /\ op = "NewNamespaceId"
    /\ arg = <<32767, 0, 65535, 1>>
    /\ ret.err = ErrWrongBitNamespaceId

\* C2: for a name of 1 to 3 valid segments GenerateNamespacePath returns one
\* identifier per segment, in order: the first derived from the first segment
\* and the sentinel 0, each later one from its segment and the identifier just
\* produced for the segment before it.
C2_PathChain ==
    (/\ op = "GenerateNamespacePath"
     /\ Len(arg.segs) <= 3
     /\ \A i \in 1..Len(arg.segs) : arg.segs[i] \in GoodSegments)
    => /\ ret.err = NoError
       /\ Len(ret.val) = 1
       /\ LET path == ret.val[1]
              deriveId(s, parent) == generateNamespaceId(s, parent).val[1]
          IN  /\ Len(path) = Len(arg.segs)
              /\ path[1] = deriveId(arg.segs[1], <<0, 0, 0, 0>>)
              /\ \A i \in 2..Len(path) :
                    path[i] = deriveId(arg.segs[i], path[i - 1])

C2_Witness ==
    /\ op = "GenerateNamespacePath"
    /\ arg.segs = << <<97>>, <<98, 95, 50>>, <<97>> >>
    /\ ret.err = NoError
    /\ Len(ret.val[1]) = 3

\* C3: GenerateNamespacePath returns no path and ErrInvalidNamespaceName for
\* "" and for ".", ErrNamespaceTooManyPart for every name of more than 3
\* segments, and ErrInvalidNamespaceName for every name of 1 to 3 segments
\* one of which is empty or breaks the grammar; NewNamespaceIdFromName hands
\* the same errors on.
C3_PathErrors ==
    op \in {"GenerateNamespacePath", "NewNamespaceIdFromName"} =>
        /\ arg.name \in {<<>>, <<46>>} =>
              ret = [val |-> <<>>, err |-> ErrInvalidNamespaceName]
        /\ Len(arg.segs) > 3 =>
              ret = [val |-> <<>>, err |-> ErrNamespaceTooManyPart]
        /\ (/\ Len(arg.segs) <= 3
            /\ \E i \in 1..Len(arg.segs) : arg.segs[i] \notin GoodSegments)
           => ret = [val |-> <<>>, err |-> ErrInvalidNamespaceName]

C3_Witness ==
    /\ op = "GenerateNamespacePath"
    /\ arg.segs = << <<97>>, <<>>, <<97>>, <<45, 120>> >>
    /\ ret.err = ErrNamespaceTooManyPart

\* C4: the text of a key-derived or alias address parses back to the same
\* Address (same network type, same text), from its base32 text with
\* NewAddressFromRaw and from the hex of its 25 bytes with
\* NewAddressFromEncoded.
C4_RoundTrip ==
    /\ (op = "NewAddressFromRaw" /\ origin \in Made
            /\ arg.form.kind = "canonical")
       => ret = [val |-> <<addr>>, err |-> NoError]
    /\ (op = "NewAddressFromEncoded" /\ origin \in Made
            /\ arg.form = "canonical")
       => ret = [val |-> <<addr>>, err |-> NoError]

C4_Witness ==
    /\ op = "NewAddressFromEncoded"
    /\ origin = "NewAddressFromPublicKey"
    /\ arg.form = "canonical"
    /\ addr.Type = "PrivateTest"
    /\ ret.err = NoError

\* The parser's input is not a well-formed address text: not base32, not 25
\* bytes once decoded, or a leading byte the version table does not hold.
Malformed(text) ==
    LET d == B32DecodeString(text)
    IN  \/ d.err # NoError
        \/ Len(d.val[1]) # 25
        \/ d.val[1][1] \notin DOMAIN addressNet

\* C5: NewAddressFromRaw (and NewAddressFromEncoded through it) returns an
\* error and no Address for every text that is not valid base32, decodes to
\* other than 25 bytes (the empty text included) or starts with an unknown
\* version byte; it never panics on such a text.
C5_ParseRejectsMalformed ==
    /\ (op = "NewAddressFromRaw" /\ Malformed(arg.text))
       => ret.val = <<>> /\ ret.err \notin {NoError, Panic}
    /\ (op = "NewAddressFromEncoded"
            /\ \/ HexDecodeString(arg.text).err # NoError
               \/ Malformed(B32EncodeToString(HexDecodeString(arg.text).val[1])))
       => ret.val = <<>> /\ ret.err \notin {NoError, Panic}

\* C6: the text is normalised before it is decoded: the dash-grouped form and
\* the lowercase form of a canonical address text are accepted exactly as the
\* text itself, with the same Address returned.
C6_NormalizedBeforeDecode ==
    (/\ op = "NewAddressFromRaw"
     /\ origin \in Made
     /\ arg.form.kind \in {"pretty", "lower"})
    => /\ ret.err = NoError
       /\ ret = NewAddressFromRaw(addr.Address)

\* Explicit checksum validation of 25 decoded bytes: the checksum of the
\* first 21 recomputed and compared with the last 4.
ChecksumValid(pH) ==
    GenerateChecksum(SubSeq(pH, 1, 21)) = SubSeq(pH, 22, 25)

\* C7: with any single byte of the checksum field of a key-derived address
\* changed, explicit checksum validation fails while the parse succeeds and
\* returns the network type of the unchanged version byte; the unchanged
\* address passes the validation.
C7_ChecksumFlip ==
    /\ (op = "NewAddressFromRaw" /\ origin = "NewAddressFromPublicKey"
            /\ arg.form.kind = "checksum")
       => LET pH == BytesOf(arg.text)
          IN  /\ Len(pH) = 25
              /\ SubSeq(pH, 1, 21) = SubSeq(BytesOf(addr.Address), 1, 21)
              /\ ~ChecksumValid(pH)
              /\ ret.err = NoError
              /\ Len(ret.val) = 1
              /\ ret.val[1].Type = addr.Type
              /\ VersionByte[ret.val[1].Type] = pH[1]
    /\ (op = "NewAddressFromRaw" /\ origin = "NewAddressFromPublicKey"
            /\ arg.form.kind = "canonical")
       => ChecksumValid(BytesOf(arg.text))

C7_Witness ==
    /\ op = "NewAddressFromRaw"
    /\ origin = "NewAddressFromPublicKey"
    /\ arg.form = [kind |-> "checksum", pos |-> 4, delta |-> 128]
    /\ ret.err = NoError
    /\ ~ChecksumValid(BytesOf(arg.text))

\* C8: NewAddressFromNamespace encodes 25 bytes: the alias version byte 0x91,
\* the id on 8 bytes least significant first, 16 zero bytes; the Address has
\* the alias type, and no other id gives the same Address or payload.
C8_AliasPayload ==
    op = "NewAddressFromNamespace" =>
        /\ ret.err = NoError
        /\ Len(ret.val) = 1
        /\ ret.val[1].Type = AliasAddress
        /\ LET pH == BytesOf(ret.val[1].Address)
               le == << arg[4] % 256, arg[4] \div 256, arg[3] % 256, arg[3] \div 256,
                        arg[2] % 256, arg[2] \div 256, arg[1] % 256, arg[1] \div 256 >>
           IN  /\ Len(pH) = 25
               /\ pH[1] = 145
               /\ SubSeq(pH, 2, 9) = le
               /\ \A i \in 10..25 : pH[i] = 0
        /\ \A other \in IdSamples \ {arg} :
              LET r == NewAddressFromNamespace(NewNamespaceIdNoCheck(other))
              IN  /\ r # ret
                  /\ r.err = NoError
                     => BytesOf(r.val[1].Address) # BytesOf(ret.val[1].Address)

C8_Witness ==
    /\ op = "NewAddressFromNamespace"
    /\ arg = <<32768, 0, 65535, 1>>
    /\ ret.err = NoError
    /\ SubSeq(BytesOf(ret.val[1].Address), 1, 9) = <<145, 1, 0, 255, 255, 0, 0, 0, 128>>

\* Pretty's result p for the text a: six blocks of 6 characters of a, each
\* followed by "-", then the rest of a, so that p without the dashes,
\* uppercased, is a again.
PrettyOf(p, a) ==
    /\ \A i \in 1..6 :
          /\ SubSeq(p, 7 * i - 6, 7 * i - 1) = SubSeq(a, 6 * i - 5, 6 * i)
          /\ p[7 * i] = 45
    /\ SubSeq(p, 43, Len(p)) = SubSeq(a, 37, Len(a))
    /\ ToUpper(StripDashes(p)) = a

\* C9 as stated: for every Address the library can construct, one built by
\* NewAddress from any text included, Pretty() returns six blocks of 6 each
\* followed by "-" and the remaining tail, and stripping the dashes and
\* uppercasing gives the Address text back, with no failure.
C9_PrettyAnyAddress ==
    op = "Pretty" =>
        /\ ret.err = NoError
        /\ Len(ret.val) = 1
        /\ PrettyOf(ret.val[1], addr.Address)

\* C9 as amended: the same for every Address whose text has exactly 40
\* characters.
C9_PrettyFixedLength ==
    (op = "Pretty" /\ Len(addr.Address) = 40) =>
        /\ ret.err = NoError
        /\ Len(ret.val) = 1
        /\ Len(ret.val[1]) = 46
        /\ PrettyOf(ret.val[1], addr.Address)

C9_Witness ==
    /\ op = "Pretty"
    /\ origin = "NewAddress"
    /\ Len(addr.Address) = 40
    /\ ret.err = NoError
    /\ Len(ret.val[1]) = 46

\* C10 as stated: every NamespaceAlias returned without error has exactly one
\* of address and mosaicId populated.
C10_ExactlyOnePayload ==
    (op = "NewNamespaceAlias" /\ ret.err = NoError) =>
        LET alias == ret.val[1]
        IN  (alias.address # <<>>) # (alias.mosaicId # <<>>)

\* C10 as amended: a NamespaceAlias returned without error never has both
\* payloads; it has the address exactly when its Type is AddressAliasType and
\* the mosaicId exactly when its Type is MosaicAliasType, so for every other
\* Type it has neither.
C10_PayloadByKind ==
    (op = "NewNamespaceAlias" /\ ret.err = NoError) =>
        LET alias == ret.val[1]
        IN  /\ alias.Type = arg.Type
            /\ (alias.address # <<>>) <=> (alias.Type = 2)
            /\ (alias.mosaicId # <<>>) <=> (alias.Type = 1)
            /\ ~(alias.address # <<>> /\ alias.mosaicId # <<>>)

C10_Witness ==
    /\ op = "NewNamespaceAlias"
    /\ arg.Type = 0
    /\ ret.err = NoError
    /\ ret.val[1].address = <<>>
    /\ ret.val[1].mosaicId = <<>>

\* An identifier with bit 63 set: not the sentinel 0, and taken by the
\* checked constructor as it is.
Tagged(id) ==
    /\ id[1] >= 32768
    /\ id # <<0, 0, 0, 0>>
    /\ NewNamespaceId(id) = [val |-> <<id>>, err |-> NoError]

\* C11: every identifier of every path GenerateNamespacePath returns, and so
\* every id NewNamespaceIdFromName returns, has bit 63 set: it is never the
\* sentinel 0 the loop starts from and NewNamespaceId accepts it.
C11_DerivedIdsTagged ==
    /\ (op = "GenerateNamespacePath" /\ ret.err = NoError)
       => /\ Len(ret.val) = 1
          /\ Len(ret.val[1]) = Len(arg.segs)
          /\ \A i \in 1..Len(ret.val[1]) : Tagged(ret.val[1][i])
    /\ (op = "NewNamespaceIdFromName" /\ ret.err = NoError)
       => /\ Len(ret.val) = 1
          /\ Tagged(ret.val[1])

C11_Witness ==
    /\ op = "NewNamespaceIdFromName"
    /\ arg.segs = << <<98, 95, 50>>, <<97>> >>
    /\ ret.err = NoError
    /\ ret.val[1][1] >= 32768

\* The entries other than the one in use whose attempt would succeed.
Alternatives(c, retry) ==
    {i \in 1..Len(c.BaseURLs) : i # c.UsedBaseUrl /\ retry[i] = NoError}

\* C12: UsedBaseUrl always points into BaseURLs.  A request changes it only
\* when the first attempt failed with a *url.Error and a retry against another
\* entry succeeded, and then it is the first such entry in BaseURLs order and
\* no error is returned.  When the first attempt succeeds, fails with another
\* error, or every other entry fails too, it is unchanged, and in the failing
\* cases an error is returned.  BaseURLs itself never changes.
C12_Failover ==
    /\ config.UsedBaseUrl # 0 => config.UsedBaseUrl \in 1..Len(config.BaseURLs)
    /\ op = "DoNewRequest" =>
        LET before == arg.config
            alt == Alternatives(before, arg.retry)
        IN  /\ config.BaseURLs = before.BaseURLs
            /\ (config.UsedBaseUrl # before.UsedBaseUrl)
                  => (arg.pathOk /\ arg.first = UrlError /\ alt # {})
            /\ (arg.pathOk /\ arg.first = UrlError /\ alt # {})
                  => /\ config.UsedBaseUrl \in alt
                     /\ \A i \in alt : config.UsedBaseUrl <= i
                     /\ ret.err = NoError
            /\ (arg.pathOk /\ arg.first = NoError)
                  => config = before /\ ret.err = NoError
            /\ (arg.pathOk /\ arg.first \notin {NoError, UrlError})
                  => config = before /\ ret.err = arg.first /\ ret.val = <<>>
            /\ (arg.pathOk /\ arg.first = UrlError /\ alt = {})
                  => config = before /\ ret.err # NoError /\ ret.val = <<>>

C12_Witness ==
    /\ op = "DoNewRequest"
    /\ arg.config.UsedBaseUrl = 3
    /\ arg.first = UrlError
    /\ arg.retry[1] = HttpError
    /\ arg.retry[2] = NoError
    /\ config.UsedBaseUrl = 2
    /\ ret.err = NoError

====
